---- MODULE Spec2Model ----
(***************************************************************************)
(* exitmap: the scanner's driver (src/src/exitmap.py).                     *)
(*                                                                         *)
(* main() checks the first hop and runs every named module in turn;        *)
(* run_module() loads the module, selects the exit relays, subscribes an   *)
(* EventHandler to the controller's CIRC and STREAM events and asks the    *)
(* controller for one 2-hop circuit per exit relay.  The controller        *)
(* (stem) calls the subscribed handlers from its own event thread, so the  *)
(* build loop and the handlers run concurrently.                           *)
(*                                                                         *)
(* exitmap.py is the code at hand.  The EventHandler (eventhandler.py),    *)
(* the exit selector (exitselector.py) and the control channel itself are  *)
(* not: they are modelled from the design document, sections 4.1, 4.3 and  *)
(* 6, and marked so where they are defined.                                *)
(***************************************************************************)
EXTENDS Integers, Sequences, FiniteSets, TLC

(***************************************************************************)
(* Bounds of the model.                                                    *)
(***************************************************************************)
\* the most modules named on one command line (args.module, nargs='+')
MaxModules == 2
\* the number of relays of a consensus, hence the most exits of one scan
MaxExits == 2
\* the most destinations a module declares
MaxDests == 1
\* the most circuits one run attempts in all: the cap on stats.total_circuits
MaxCircuits == 2

None == "None"

\* args.first_hop: the fingerprint of the relay used as first hop
FirstHop == "FH"

\* the fingerprints of the relays of the consensus, in listing order
Listing == <<"F1", "F2", "F3", "F4">>

Fingerprints == {Listing[k] : k \in 1..MaxExits}

\* a fingerprint given with -e that no relay of the consensus has
Stranger == "F0"

(***************************************************************************)
(* Sequences without repetition over a set, and the orders of a sequence.  *)
(***************************************************************************)
Range(s) == {s[k] : k \in DOMAIN s}

SeqsUpTo(S, n) == UNION {[1..k -> S] : k \in 0..n}

IsInjective(s) == \A j, k \in DOMAIN s : s[j] = s[k] => j = k

\* the bijections of 1..n: the outcomes of random.shuffle on a list of n
Perms(n) == {p \in [1..n -> 1..n] : \A j, k \in 1..n : p[j] = p[k] => j = k}

\* a shuffle that draws every position afresh, so that elements may repeat
shuffle_sampling(x, p) == [k \in 1..Len(x) |-> x[p[1]]]

\* random.shuffle(x) with the outcome p: the list reordered in place
shuffle(x, p) == [k \in 1..Len(x) |-> x[p[k]]]

(***************************************************************************)
(* The exit selector, exitselector.get_exits (section 4.1 of the design).  *)
(* The consensus is a list of relay records; an exit policy is an ordered  *)
(* list of rules, the first rule that matches decides, no match rejects.   *)
(***************************************************************************)
Ports == {80, 443}

Countries == {"us", "de"}

Rule(acc, ports) == [accept |-> acc, ports |-> ports]

RejectAll == <<Rule(FALSE, Ports)>>

Policies ==
    { <<>>,
      RejectAll,
      <<Rule(TRUE, Ports)>>,
      <<Rule(FALSE, {80}), Rule(TRUE, Ports)>> }

\* the consensus snapshots: one record per fingerprint, in listing order
Consensuses ==
    {c \in [1..MaxExits -> [fpr : Fingerprints, policy : Policies, country : Countries]] :
        \A k \in 1..MaxExits : c[k].fpr = Listing[k]}

RECURSIVE FirstMatch(_, _)
\* the verdict of the first rule of the policy that matches the port
FirstMatch(policy, port) ==
    IF policy = <<>> THEN FALSE
    ELSE IF port \in Head(policy).ports THEN Head(policy).accept
    ELSE FirstMatch(Tail(policy), port)

\* a relay qualifies when its policy accepts every resolved destination
Qualifies(relay, hosts) ==
    \A k \in DOMAIN hosts : FirstMatch(relay.policy, hosts[k][2])

\* 2-letter country codes compare case-insensitively
Lower(cc) == IF cc = "US" THEN "us" ELSE IF cc = "DE" THEN "de" ELSE cc

CountryMatches(relay, country_code) ==
    country_code = None \/ Lower(relay.country) = Lower(country_code)

RECURSIVE Filter(_, _, _)
\* the fingerprints of the qualifying relays, in the order of the consensus
Filter(consensus, country_code, hosts) ==
    IF consensus = <<>> THEN <<>>
    ELSE LET relay == Head(consensus)
             rest  == Filter(Tail(consensus), country_code, hosts)
         IN  IF Qualifies(relay, hosts) /\ CountryMatches(relay, country_code)
             THEN <<relay.fpr>> \o rest
             ELSE rest

\* get_exits returns (total, exit_relays)
get_exits(consensus, country_code, hosts) ==
    [total |-> Len(consensus), exit_relays |-> Filter(consensus, country_code, hosts)]

(***************************************************************************)
(* socket.gethostbyname: a host name resolves to an address or the call    *)
(* raises socket.gaierror.                                                 *)
(***************************************************************************)
HostNames == {"good.example", "bad.example"}

ResolveError == "gaierror"

gethostbyname(host) == IF host = "good.example" THEN "192.0.2.1" ELSE ResolveError

\* module.destinations: None (declared FALSE), or a list of (host, port)
DestinationLists ==
    {[declared |-> FALSE, list |-> <<>>]}
    \cup {[declared |-> TRUE, list |-> l] : l \in SeqsUpTo(HostNames \X Ports, MaxDests)}

\* hosts = [(socket.gethostbyname(host), port) for (host, port) in destinations],
\* unless a host does not resolve and gethostbyname raises
Resolve(destinations) ==
    LET list == destinations.list
    IN  IF \E k \in DOMAIN list : gethostbyname(list[k][1]) = ResolveError
        THEN [raised |-> TRUE, hosts |-> <<>>]
        ELSE [raised |-> FALSE,
              hosts |-> [k \in DOMAIN list |-> <<gethostbyname(list[k][1]), list[k][2]>>]]

\* '-e' was used to specify a single exit relay: the list before the shuffle
Chosen(a, selected) == IF a.exit # None THEN <<a.exit>> ELSE selected

\* select_exits with the exit policy applied to the relay given with -e as well
select_exits_filtered(a, exists, resolved, selected, p) ==
    IF ~exists THEN [kind |-> "exit"]
    ELSE IF resolved.raised THEN [kind |-> "raise"]
    ELSE LET kept == IF a.exit = None THEN selected
                     ELSE IF a.exit \in Range(selected) THEN <<a.exit>> ELSE <<>>
         IN  [kind |-> "return",
              exit_relays |-> IF kept = <<>> THEN <<>> ELSE shuffle(kept, p)]

(***************************************************************************)
(* select_exits(args, module).  exists: os.path.exists(consensus);         *)
(* resolved: what resolving the destinations gave; selected: what          *)
(* get_exits returns for them; p: the outcome of random.shuffle.           *)
(* It returns the list, or ends the process (exit(1)), or raises.          *)
(***************************************************************************)
select_exits(a, exists, resolved, selected, p) ==
    IF ~exists THEN [kind |-> "exit"]
    ELSE IF resolved.raised THEN [kind |-> "raise"]
    ELSE [kind |-> "return", exit_relays |-> shuffle(Chosen(a, selected), p)]

(***************************************************************************)
(* The state of the process.                                               *)
(***************************************************************************)
VARIABLES
    pc,          \* where the main thread is in main() and run_module()
    args,        \* the parsed command line: exit, country, module (how many)
    first_hop_found, \* whether the consensus lists the relay args.first_hop
    module_idx,  \* the position of module_name in args.module
    exit_relays, \* run_module's list of selected exit relays
    idx,         \* the position of exit_relay in exit_relays
    loaded,      \* what `stats.failed_circuits += 1` has read and not yet stored
    stats,       \* the Statistics object: total_circuits, failed_circuits, modules_run
    handlers,    \* the listeners subscribed to the controller, in subscription order
    circs,       \* the circuits the control channel has acknowledged, by identifier
    cur,         \* the notification the controller's event thread is handing out
    reqs,        \* the paths run_module has asked circuits for, in this module run
    rejected,    \* how many requests the control channel has rejected so far
    selIn,       \* the inputs of a call of select_exits taken alone
    selOut       \* and what the call returned

vars == <<pc, args, first_hop_found, module_idx, exit_relays, idx, loaded, stats, handlers,
          circs, cur, reqs, rejected, selIn, selOut>>

mainVars == <<pc, module_idx, exit_relays, idx, loaded, reqs, rejected>>

\* no call of select_exits is looked at alone
Idle == [kind |-> "idle"]

\* c: the circuit; ev: the notification; h: the listener to call next; last: the
\* last of the listeners subscribed when the event thread took the notification
NoEvent == [c |-> 0, ev |-> None, h |-> 0, last |-> 0, dup |-> FALSE]

\* the command lines: -e and -C exclude each other
ArgSets ==
    {[exit |-> e, country |-> None, module |-> n] :
        e \in {None} \cup Fingerprints \cup {Stranger}, n \in 1..MaxModules}
    \cup {[exit |-> None, country |-> cc, module |-> n] :
        cc \in {"us", "DE"}, n \in 1..MaxModules}

\* what resolving a module's destinations can come to
Resolutions == {Resolve(d) : d \in DestinationLists}

\* what exitselector.get_exits can return: fingerprints, none twice
ExitLists == {s \in SeqsUpTo(Fingerprints, MaxExits) : IsInjective(s)}

(***************************************************************************)
(* The Event Correlation Engine (section 4.3 of the design): one           *)
(* EventHandler per module run, with its table of tracked circuits.        *)
(* run_module gives the handler the controller, the probe and the          *)
(* statistics and nothing else, so a handler learns of a circuit from the  *)
(* first notification that names it.                                       *)
(***************************************************************************)
FailureEvents == {"build_failed", "stream_failed", "closed"}

Tracked(h, c) == c \in DOMAIN h.table

Count(f, c) == IF c \in DOMAIN f THEN f[c] ELSE 0

Bump(f, c) == [x \in DOMAIN f \cup {c} |-> IF x = c THEN Count(f, c) + 1 ELSE f[x]]

Put(t, c, s) == [x \in DOMAIN t \cup {c} |-> IF x = c THEN s ELSE t[x]]

Remove(t, c) == [x \in DOMAIN t \ {c} |-> t[x]]

\* new_event with every failure notification counted, tracked circuit or not
new_event_counting_all(h, c, ev) ==
    IF ev \in FailureEvents
    THEN [handler |-> [h EXCEPT !.table = Remove(h.table, c), !.fails = Bump(h.fails, c)],
          failed |-> 1]
    ELSE IF ev = "stream_ok" /\ Tracked(h, c) /\ h.table[c] = "StreamAttached"
    THEN [handler |-> [h EXCEPT !.table = Remove(h.table, c), !.probes = Bump(h.probes, c)],
          failed |-> 0]
    ELSE IF ev = "launched" /\ ~Tracked(h, c)
    THEN [handler |-> [h EXCEPT !.table = Put(h.table, c, "Extending")], failed |-> 0]
    ELSE IF ev = "built" /\ Tracked(h, c) /\ h.table[c] \in {"Extending", "StreamWaiting"}
    THEN [handler |-> [h EXCEPT !.table = Put(h.table, c,
                          IF h.table[c] = "Extending" THEN "Built" ELSE "StreamAttached")],
          failed |-> 0]
    ELSE IF ev = "stream_new" /\ Tracked(h, c) /\ h.table[c] \in {"Extending", "Built"}
    THEN [handler |-> [h EXCEPT !.table = Put(h.table, c,
                          IF h.table[c] = "Extending" THEN "StreamWaiting" ELSE "StreamAttached")],
          failed |-> 0]
    ELSE [handler |-> h, failed |-> 0]

\* handler.new_event(event): the handler after the notification, and by how
\* much it raises stats.failed_circuits
new_event(h, c, ev) ==
    LET same == [handler |-> h, failed |-> 0]
        to(s) == [handler |-> [h EXCEPT !.table = Put(h.table, c, s)], failed |-> 0]
    IN  CASE ev = "launched" ->
                IF Tracked(h, c) THEN same ELSE to("Extending")
          [] ev = "built" ->
                IF ~Tracked(h, c) THEN same
                ELSE IF h.table[c] = "Extending" THEN to("Built")
                ELSE IF h.table[c] = "StreamWaiting" THEN to("StreamAttached")
                ELSE same
          [] ev = "stream_new" ->
                IF ~Tracked(h, c) THEN same
                ELSE IF h.table[c] = "Extending" THEN to("StreamWaiting")
                ELSE IF h.table[c] = "Built" THEN to("StreamAttached")
                ELSE same
          [] ev = "stream_ok" ->
                IF Tracked(h, c) /\ h.table[c] = "StreamAttached"
                THEN [handler |-> [h EXCEPT !.table = Remove(h.table, c),
                                            !.probes = Bump(h.probes, c)],
                      failed |-> 0]
                ELSE same
          [] ev \in FailureEvents ->
                IF Tracked(h, c)
                THEN [handler |-> [h EXCEPT !.table = Remove(h.table, c),
                                            !.fails = Bump(h.fails, c)],
                      failed |-> 1]
                ELSE same

\* EventHandler(controller, module.probe, stats)
EventHandler(m) == [mod |-> m, table |-> <<>>, probes |-> <<>>, fails |-> <<>>]

(***************************************************************************)
(* The control channel (section 6 of the design): the notifications about  *)
(* one circuit come in causal order.                                       *)
(***************************************************************************)
ChanSteps ==
    { <<"requested", "launched", "extending">>,
      <<"requested", "build_failed", "failed">>,
      <<"extending", "built", "built">>,
      <<"extending", "stream_new", "stream_waiting">>,
      <<"extending", "build_failed", "failed">>,
      <<"stream_waiting", "built", "attached">>,
      <<"stream_waiting", "build_failed", "failed">>,
      <<"built", "stream_new", "attached">>,
      <<"built", "closed", "failed">>,
      <<"attached", "stream_ok", "succeeded">>,
      <<"attached", "stream_failed", "failed">>,
      <<"attached", "closed", "failed">> }

\* the circuit is over: its stream succeeded, or it failed or was closed
ChanTerminal == {"succeeded", "failed"}

\* the terminal notifications the channel may repeat about a circuit that is over
Sent(chan) ==
    CASE chan = "succeeded" -> {"built", "stream_ok"}
      [] chan = "failed" -> FailureEvents
      [] OTHER -> {}

(***************************************************************************)
(* main() and run_module(), one action per step of the main thread.        *)
(***************************************************************************)
\* the main thread has left main(): by return, by exit(1) or by an exception
Returned == {"return0", "return1"}

Aborted == {"SystemExit", "gaierror", "ExitSelectionError"}

\* the command lines the scan is run with: the country code only reaches
\* get_exits, whose result the scan takes as it comes
ScanArgs ==
    {[exit |-> e, country |-> None, module |-> n] :
        e \in {None, Listing[1]}, n \in 1..MaxModules}

Init ==
    /\ pc = "main"
    /\ args \in ScanArgs
    /\ first_hop_found \in BOOLEAN
    /\ module_idx = 1
    /\ exit_relays = <<>>
    /\ idx = 1
    /\ loaded = 0
    /\ stats = [total_circuits |-> 0, failed_circuits |-> 0, modules_run |-> 0]
    /\ handlers = <<>>
    /\ circs = <<>>
    /\ cur = NoEvent
    /\ reqs = <<>>
    /\ rejected = 0
    /\ selIn = Idle
    /\ selOut = Idle

\* util.relay_in_consensus(args.first_hop, util.get_consensus_path(args))
relay_in_consensus == first_hop_found

\* CheckFirstHop without the check: the modules are run in any case
CheckFirstHopSkipped ==
    /\ pc = "main"
    /\ pc' = "for"
    /\ UNCHANGED <<args, first_hop_found, module_idx, exit_relays, idx, loaded, stats,
                   handlers, circs, cur, reqs, rejected, selIn, selOut>>

\* main: if not util.relay_in_consensus(...): return 1
CheckFirstHop ==
    /\ pc = "main"
    /\ pc' = IF relay_in_consensus THEN "for" ELSE "return1"
    /\ UNCHANGED <<args, first_hop_found, module_idx, exit_relays, idx, loaded, stats, handlers,
                   circs, cur, reqs, rejected, selIn, selOut>>

\* main: the for loop is through, return 0
Return0 ==
    /\ pc = "for"
    /\ module_idx > args.module
    /\ pc' = "return0"
    /\ UNCHANGED <<args, first_hop_found, module_idx, exit_relays, idx, loaded, stats, handlers,
                   circs, cur, reqs, rejected, selIn, selOut>>

\* ImportModule with the ImportError left to leave run_module and main
ImportModuleRaising ==
    /\ pc = "for"
    /\ module_idx <= args.module
    /\ \E imported \in BOOLEAN :
          IF imported
          THEN /\ pc' = "select"
               /\ reqs' = <<>>
               /\ exit_relays' = <<>>
               /\ idx' = 1
               /\ UNCHANGED module_idx
          ELSE /\ pc' = "ImportError"
               /\ UNCHANGED <<module_idx, reqs, exit_relays, idx>>
    /\ UNCHANGED <<args, first_hop_found, loaded, stats, handlers, circs, cur,
                   rejected, selIn, selOut>>

\* main calls run_module for the next name; run_module imports the module,
\* and returns at once when the import fails
ImportModule ==
    /\ pc = "for"
    /\ module_idx <= args.module
    /\ \E imported \in BOOLEAN :
          IF imported
          THEN /\ pc' = "select"
               /\ reqs' = <<>>
               /\ exit_relays' = <<>>
               /\ idx' = 1
               /\ UNCHANGED module_idx
          ELSE /\ pc' = "for"
               /\ module_idx' = module_idx + 1
               /\ UNCHANGED <<reqs, exit_relays, idx>>
    /\ UNCHANGED <<args, first_hop_found, loaded, stats, handlers, circs, cur,
                   rejected, selIn, selOut>>

\* run_module: exit_relays = select_exits(args, module); the runs looked at
\* attempt MaxCircuits circuits at most
SelectExits ==
    /\ pc = "select"
    /\ \E exists \in BOOLEAN, resolved \in Resolutions, selected \in ExitLists :
         /\ stats.total_circuits + Len(Chosen(args, selected)) <= MaxCircuits
         /\ \E p \in Perms(Len(Chosen(args, selected))) :
            LET r == select_exits(args, exists, resolved, selected, p)
            IN  CASE r.kind = "exit" ->
                        pc' = "SystemExit" /\ UNCHANGED exit_relays
                  [] r.kind = "raise" ->
                        pc' = "gaierror" /\ UNCHANGED exit_relays
                  [] r.kind = "return" ->
                        pc' = "count" /\ exit_relays' = r.exit_relays
    /\ UNCHANGED <<args, first_hop_found, module_idx, idx, loaded, stats, handlers, circs, cur,
                   reqs, rejected, selIn, selOut>>

\* CountExits with `stats.total_circuits = count` for `+=`
CountExitsAssign ==
    /\ pc = "count"
    /\ LET count == Len(exit_relays)
       IN  /\ stats' = [stats EXCEPT !.total_circuits = count]
           /\ pc' = IF count < 1 THEN "ExitSelectionError" ELSE "subscribe"
    /\ UNCHANGED <<args, first_hop_found, module_idx, exit_relays, idx, loaded, handlers, circs,
                   cur, reqs, rejected, selIn, selOut>>

\* CountExits without the `if count < 1: raise`
CountExitsUnchecked ==
    /\ pc = "count"
    /\ stats' = [stats EXCEPT !.total_circuits = @ + Len(exit_relays)]
    /\ pc' = "subscribe"
    /\ UNCHANGED <<args, first_hop_found, module_idx, exit_relays, idx, loaded, handlers, circs,
                   cur, reqs, rejected, selIn, selOut>>

\* run_module: count = len(exit_relays); stats.total_circuits += count;
\* if count < 1: raise error.ExitSelectionError
CountExits ==
    /\ pc = "count"
    /\ LET count == Len(exit_relays)
       IN  /\ stats' = [stats EXCEPT !.total_circuits = @ + count]
           /\ pc' = IF count < 1 THEN "ExitSelectionError" ELSE "subscribe"
    /\ UNCHANGED <<args, first_hop_found, module_idx, exit_relays, idx, loaded, handlers, circs,
                   cur, reqs, rejected, selIn, selOut>>

\* Subscribe with the handler made and never added as a listener
SubscribeNothing ==
    /\ pc = "subscribe"
    /\ handlers' = handlers
    /\ idx' = 1
    /\ pc' = "loop"
    /\ UNCHANGED <<args, first_hop_found, module_idx, exit_relays, loaded, stats, circs, cur,
                   reqs, rejected, selIn, selOut>>

\* run_module: handler = EventHandler(...); controller.add_event_listener(...)
Subscribe ==
    /\ pc = "subscribe"
    /\ handlers' = Append(handlers, EventHandler(module_idx))
    /\ idx' = 1
    /\ pc' = "loop"
    /\ UNCHANGED <<args, first_hop_found, module_idx, exit_relays, loaded, stats, circs, cur,
                   reqs, rejected, selIn, selOut>>

\* the circuit the control channel sets up for an accepted request
Circuit(m) == [mod |-> m, chan |-> "requested"]

\* NewCircuit with the loop left at the first rejected request
NewCircuitGiveUp ==
    /\ pc = "loop"
    /\ idx <= Len(exit_relays)
    /\ reqs' = Append(reqs, <<FirstHop>> \o <<exit_relays[idx]>>)
    /\ \E accepted \in BOOLEAN :
          IF accepted
          THEN /\ circs' = Append(circs, Circuit(module_idx))
               /\ pc' = "loop"
               /\ idx' = idx + 1
               /\ UNCHANGED rejected
          ELSE /\ pc' = "loop"
               /\ idx' = Len(exit_relays) + 1
               /\ rejected' = rejected + 1
               /\ UNCHANGED circs
    /\ UNCHANGED <<args, first_hop_found, module_idx, exit_relays, loaded, stats, handlers,
                   cur, selIn, selOut>>

\* NewCircuit with the loop waiting, before each request, until the circuits
\* asked for so far are over
NewCircuitWaiting ==
    /\ pc = "loop"
    /\ idx <= Len(exit_relays)
    /\ \A c \in DOMAIN circs : circs[c].chan \in ChanTerminal
    /\ reqs' = Append(reqs, <<FirstHop>> \o <<exit_relays[idx]>>)
    /\ \E accepted \in BOOLEAN :
          IF accepted
          THEN /\ circs' = Append(circs, Circuit(module_idx))
               /\ pc' = "loop"
               /\ idx' = idx + 1
               /\ UNCHANGED rejected
          ELSE /\ pc' = "except"
               /\ rejected' = rejected + 1
               /\ UNCHANGED <<circs, idx>>
    /\ UNCHANGED <<args, first_hop_found, module_idx, exit_relays, loaded, stats, handlers,
                   cur, selIn, selOut>>

\* run_module: controller.new_circuit([args.first_hop] + [exit_relay]), which the
\* control channel acknowledges or rejects (stem.ControllerError); acknowledged,
\* the loop sleeps for args.build_delay, which changes nothing another thread
\* sees, and goes on to the next exit relay
NewCircuit ==
    /\ pc = "loop"
    /\ idx <= Len(exit_relays)
    /\ reqs' = Append(reqs, <<FirstHop>> \o <<exit_relays[idx]>>)
    /\ \E accepted \in BOOLEAN :
          IF accepted
          THEN /\ circs' = Append(circs, Circuit(module_idx))
               /\ pc' = "loop"
               /\ idx' = idx + 1
               /\ UNCHANGED rejected
          ELSE /\ pc' = "except"
               /\ rejected' = rejected + 1
               /\ UNCHANGED <<circs, idx>>
    /\ UNCHANGED <<args, first_hop_found, module_idx, exit_relays, loaded, stats, handlers,
                   cur, selIn, selOut>>

\* except stem.ControllerError: stats.failed_circuits += 1, the read of it
LoadFailed ==
    /\ pc = "except"
    /\ loaded' = stats.failed_circuits
    /\ pc' = "store"
    /\ UNCHANGED <<args, first_hop_found, module_idx, exit_relays, idx, stats, handlers, circs,
                   cur, reqs, rejected, selIn, selOut>>

\* stats.failed_circuits += 1, the store of what was read plus one; then the
\* warning, the sleep, and on to the next exit relay
StoreFailed ==
    /\ pc = "store"
    /\ stats' = [stats EXCEPT !.failed_circuits = loaded + 1]
    /\ loaded' = 0
    /\ idx' = idx + 1
    /\ pc' = "loop"
    /\ UNCHANGED <<args, first_hop_found, module_idx, exit_relays, handlers, circs, cur,
                   reqs, rejected, selIn, selOut>>

\* run_module: the loop is through; stats.modules_run += 1, back in main
ModuleDone ==
    /\ pc = "loop"
    /\ idx > Len(exit_relays)
    /\ stats' = [stats EXCEPT !.modules_run = @ + 1]
    /\ module_idx' = module_idx + 1
    /\ exit_relays' = <<>>
    /\ idx' = 1
    /\ reqs' = <<>>
    /\ pc' = "for"
    /\ UNCHANGED <<args, first_hop_found, loaded, handlers, circs, cur, rejected, selIn, selOut>>

(***************************************************************************)
(* The controller's event thread.                                          *)
(***************************************************************************)
\* the channel reports the next transition of a circuit
Emit ==
    /\ cur = NoEvent
    /\ handlers # <<>>
    /\ \E c \in DOMAIN circs, step \in ChanSteps :
          /\ step[1] = circs[c].chan
          /\ circs' = [circs EXCEPT ![c].chan = step[3]]
          /\ cur' = [c |-> c, ev |-> step[2], h |-> 1, last |-> Len(handlers), dup |-> FALSE]
    /\ UNCHANGED <<mainVars, args, first_hop_found, stats, handlers, selIn, selOut>>

\* the channel repeats a terminal notification about a circuit that is over
EmitDuplicate ==
    /\ cur = NoEvent
    /\ handlers # <<>>
    /\ \E c \in DOMAIN circs :
          \E ev \in Sent(circs[c].chan) :
             cur' = [c |-> c, ev |-> ev, h |-> 1, last |-> Len(handlers), dup |-> TRUE]
    /\ UNCHANGED <<mainVars, args, first_hop_found, stats, handlers, circs, selIn, selOut>>

\* the event thread calls the next listener with the notification
Deliver ==
    /\ cur # NoEvent
    /\ LET r == new_event(handlers[cur.h], cur.c, cur.ev)
       IN  /\ handlers' = [handlers EXCEPT ![cur.h] = r.handler]
           /\ stats' = [stats EXCEPT !.failed_circuits = @ + r.failed]
    /\ cur' = IF cur.h < cur.last THEN [cur EXCEPT !.h = @ + 1] ELSE NoEvent
    /\ UNCHANGED <<mainVars, args, first_hop_found, circs, selIn, selOut>>

Next ==
    \/ CheckFirstHop
    \/ Return0
    \/ ImportModule
    \/ SelectExits
    \/ CountExits
    \/ Subscribe
    \/ NewCircuit
    \/ LoadFailed
    \/ StoreFailed
    \/ ModuleDone
    \/ Emit
    \/ EmitDuplicate
    \/ Deliver

Spec == Init /\ [][Next]_vars

(***************************************************************************)
(* The build loop scheduled fairly: the main thread, once in the loop of   *)
(* run_module, keeps taking steps (a request, the increment of a counter,  *)
(* a sleep of args.build_delay all return).  Nothing is assumed of the     *)
(* controller's event thread.                                              *)
(***************************************************************************)
BuildLoop == Subscribe \/ NewCircuit \/ LoadFailed \/ StoreFailed \/ ModuleDone

SpecFair == Spec /\ WF_vars(BuildLoop)

(***************************************************************************)
(* select_exits taken alone: the inputs are drawn, the call is made once.  *)
(***************************************************************************)
SelectInputs ==
    [kind : {"call"},
     args : {a \in ArgSets : a.module = 1},
     exists : BOOLEAN,
     consensus : Consensuses,
     destinations : DestinationLists]

InitSelect ==
    /\ selIn \in SelectInputs
    /\ selOut = Idle
    /\ pc = "select_exits"
    /\ args = selIn.args
    /\ first_hop_found = TRUE
    /\ module_idx = 1
    /\ exit_relays = <<>>
    /\ idx = 1
    /\ loaded = 0
    /\ stats = [total_circuits |-> 0, failed_circuits |-> 0, modules_run |-> 0]
    /\ handlers = <<>>
    /\ circs = <<>>
    /\ cur = NoEvent
    /\ reqs = <<>>
    /\ rejected = 0

\* what get_exits returns for the inputs of the call
Selected(in) ==
    get_exits(in.consensus, in.args.country, Resolve(in.destinations).hosts).exit_relays

CallSelectExits ==
    /\ selIn.kind = "call"
    /\ selOut = Idle
    /\ \E p \in Perms(Len(Chosen(selIn.args, Selected(selIn)))) :
          selOut' = select_exits(selIn.args, selIn.exists, Resolve(selIn.destinations),
                                 Selected(selIn), p)
    /\ UNCHANGED <<mainVars, args, first_hop_found, stats, handlers, circs, cur, selIn>>

NextSelect == CallSelectExits

SpecSelect == InitSelect /\ [][NextSelect]_vars

(***************************************************************************)
(* What the claims speak of.                                               *)
(***************************************************************************)
RECURSIVE SumSeq(_)
SumSeq(q) == IF q = <<>> THEN 0 ELSE Head(q) + SumSeq(Tail(q))

RECURSIVE SumFn(_)
\* the sum of the values of a function with a finite domain
SumFn(f) ==
    IF DOMAIN f = {} THEN 0
    ELSE LET x == CHOOSE y \in DOMAIN f : TRUE
         IN  f[x] + SumFn([y \in DOMAIN f \ {x} |-> f[y]])

\* how often a probe has been invoked for circuit c, over all handlers
Invocations(c) == SumSeq([h \in DOMAIN handlers |-> Count(handlers[h].probes, c)])

\* how often the event handlers have raised stats.failed_circuits
EngineFailures == SumSeq([h \in DOMAIN handlers |-> SumFn(handlers[h].fails)])

\* the circuits a probe has been invoked for
Probed == {c \in DOMAIN circs : Invocations(c) > 0}

\* a notification about circuit c is still being handed to the handlers
InFlight(c) == cur # NoEvent /\ cur.c = c

\* the build loop of run_module is at work
InLoop == pc \in {"loop", "except", "store"}

\* the requests of a rejected `+= 1` that has not stored yet
Pending == IF pc \in {"except", "store"} THEN 1 ELSE 0

\* how often x occurs in the list s
Occurrences(s, x) == Cardinality({k \in DOMAIN s : s[k] = x})

\* the lists s and t hold the same elements, each as often
SameMultiset(s, t) ==
    /\ Len(s) = Len(t)
    /\ \A x \in Range(s) \cup Range(t) : Occurrences(s, x) = Occurrences(t, x)

(***************************************************************************)
(* C1.  For every sequence of circuit and stream events with the events of *)
(* each circuit in causal order, a probe is invoked exactly once for a     *)
(* circuit that reaches the success path (built, stream attached, stream   *)
(* succeeded) and never for a circuit that reaches a failure path: no      *)
(* circuit yields two invocations, or none on success.                     *)
(***************************************************************************)
C1_ProbeExactlyOnce ==
    \A c \in DOMAIN circs :
        /\ Invocations(c) <= 1
        /\ circs[c].chan = "failed" => Invocations(c) = 0
        /\ circs[c].chan = "succeeded" /\ ~InFlight(c) => Invocations(c) = 1

(***************************************************************************)
(* C2.  For n >= 1 selected exits the build loop issues exactly n          *)
(* circuit-creation requests, the i-th for the path [first hop, i-th exit  *)
(* of the list], in the order of the list, none skipped or repeated,       *)
(* whether or not earlier requests were rejected.                          *)
(***************************************************************************)
C2_RequestsInOrder ==
    /\ InLoop =>
          /\ Len(reqs) = IF pc = "loop" THEN idx - 1 ELSE idx
          /\ Len(reqs) <= Len(exit_relays)
          /\ \A k \in DOMAIN reqs : reqs[k] = <<FirstHop, exit_relays[k]>>
    /\ pc \in Aborted => reqs = <<>>

\* a scan of two exits is through, its two requests differ, one was rejected
C2_Witness ==
    /\ pc = "loop"
    /\ idx > Len(exit_relays)
    /\ Len(reqs) = 2
    /\ reqs[1] # reqs[2]
    /\ Len(circs) = 1

(***************************************************************************)
(* C3.  When the control channel rejects a circuit-creation request,       *)
(* failed_circuits goes up by exactly one for that request, the error      *)
(* stays inside the build loop, and the loop goes on to the next exit.     *)
(***************************************************************************)
C3_RejectionCountedOnce ==
    [][pc = "store" /\ pc' # pc =>
          /\ stats'.failed_circuits = stats.failed_circuits + 1
          /\ pc' = "loop"
          /\ idx' = idx + 1]_vars

(***************************************************************************)
(* C4.  After one module's exit selection yields zero exits the process is *)
(* not aborted: the remaining modules of the batch are still run.          *)
(***************************************************************************)
C4_BatchContinues ==
    ~(pc = "ExitSelectionError" /\ module_idx < args.module)

(***************************************************************************)
(* C5.  No increment of failed_circuits is lost when the build loop and    *)
(* the event handlers raise it concurrently: failed_circuits is the number *)
(* of rejected requests plus the number of failures the handlers counted.  *)
(***************************************************************************)
C5_NoIncrementLost ==
    stats.failed_circuits = (rejected - Pending) + EngineFailures

(***************************************************************************)
(* C6.  total_circuits after a scan is the number of selected exits:       *)
(* run_module adds the count of selected exits once, before any            *)
(* circuit-creation request, whatever becomes of the requests, and         *)
(* nothing else changes total_circuits.                                    *)
(***************************************************************************)
\* the claim as made: during and after every scan, total_circuits is the
\* number of exits selected for that scan
C6_TotalIsScanCount ==
    InLoop \/ pc = "subscribe" => stats.total_circuits = Len(exit_relays)

\* the claim with the counter running over the batch: every scan adds its
\* count once, before its first request, and nothing else changes the
\* counter, so that the first scan leaves it at the number of its exits
C6_TotalIsSelected ==
    /\ [][stats'.total_circuits # stats.total_circuits =>
             /\ pc = "count" /\ pc' # pc
             /\ reqs = <<>>
             /\ stats'.total_circuits = stats.total_circuits + Len(exit_relays)]_vars
    /\ [][pc = "count" /\ pc' # pc =>
             stats'.total_circuits = stats.total_circuits + Len(exit_relays)]_vars
    /\ [](module_idx = 1 /\ (InLoop \/ pc = "subscribe") =>
             stats.total_circuits = Len(exit_relays))

\* the second scan of a batch is through: two exits selected in all, one of
\* them rejected, one failed
C6_Witness ==
    /\ module_idx = 2
    /\ pc = "loop"
    /\ idx > Len(exit_relays)
    /\ stats.total_circuits = 2
    /\ rejected = 1
    /\ EngineFailures > 0

(***************************************************************************)
(* C7.  In every reachable state failed_circuits plus the number of        *)
(* circuits whose probe has been invoked is at most total_circuits.        *)
(***************************************************************************)
C7_FailedPlusProbedWithinTotal ==
    stats.failed_circuits + Cardinality(Probed) <= stats.total_circuits

(***************************************************************************)
(* C8.  When exit selection yields zero exits, run_module raises           *)
(* ExitSelectionError: no event handler has been subscribed for the        *)
(* module, no circuit-creation request has been issued for it, and         *)
(* modules_run is not raised for it.                                       *)
(***************************************************************************)
C8_ZeroExitsRaise ==
    /\ [][pc = "count" /\ pc' # pc /\ Len(exit_relays) < 1 =>
             /\ pc' = "ExitSelectionError"
             /\ UNCHANGED <<handlers, circs, reqs>>
             /\ stats'.modules_run = stats.modules_run]_vars
    /\ [][pc = "ExitSelectionError" =>
             /\ pc' = pc
             /\ stats'.modules_run = stats.modules_run
             /\ Len(handlers') = Len(handlers)
             /\ Len(circs') = Len(circs)]_vars
    /\ [](pc = "ExitSelectionError" =>
             /\ exit_relays = <<>>
             /\ reqs = <<>>
             /\ \A h \in DOMAIN handlers : handlers[h].mod # module_idx
             /\ \A c \in DOMAIN circs : circs[c].mod # module_idx)

\* the second module of a batch selected no exit, after a first that ran
C8_Witness ==
    /\ pc = "ExitSelectionError"
    /\ module_idx = 2
    /\ stats.modules_run = 1
    /\ Len(handlers) = 1

(***************************************************************************)
(* C9.  A duplicate terminal notification (build success, stream success,  *)
(* failure or closure) about a circuit that is over changes nothing: no    *)
(* probe is invoked, failed_circuits is not raised, no table changes.      *)
(***************************************************************************)
C9_DuplicateIsInert ==
    [][cur.dup /\ cur' # cur => handlers' = handlers /\ stats' = stats]_vars

\* the first of two handlers has been handed a repeated stream success about
\* a circuit it has probed
C9_Witness ==
    /\ cur.dup
    /\ cur.h = 2
    /\ cur.ev = "stream_ok"
    /\ Count(handlers[1].probes, cur.c) = 1

C11_AlwaysPermutation ==
    selOut # Idle /\ selOut.kind = "return" =>
        SameMultiset(selOut.exit_relays, Selected(selIn))

\* the claim for the command lines without -e, where the exit selector is
\* asked; with -e the list is the one fingerprint given
C11_PermutationOfQualifying ==
    selOut # Idle /\ selOut.kind = "return" =>
        IF selIn.args.exit = None
        THEN SameMultiset(selOut.exit_relays, Selected(selIn))
        ELSE selOut.exit_relays = <<selIn.args.exit>>

\* two relays qualify and the shuffle has turned them round
C11_Witness ==
    /\ selOut # Idle
    /\ selOut.kind = "return"
    /\ selIn.args.exit = None
    /\ Len(Selected(selIn)) = 2
    /\ selOut.exit_relays = <<Selected(selIn)[2], Selected(selIn)[1]>>

(***************************************************************************)
(* C12.  When the first hop is not in the consensus, main returns 1 and    *)
(* runs no module: no exit selection, no handler subscribed, no circuit    *)
(* requested, every counter of the statistics still zero.  When it is, and *)
(* every module completes, main returns 0.                                 *)
(***************************************************************************)
C12_FirstHopDecides ==
    /\ [](~first_hop_found =>
             /\ pc \in {"main", "return1"}
             /\ stats = [total_circuits |-> 0, failed_circuits |-> 0, modules_run |-> 0]
             /\ handlers = <<>>
             /\ circs = <<>>
             /\ reqs = <<>>
             /\ rejected = 0
             /\ exit_relays = <<>>)
    /\ [](pc = "return1" => ~first_hop_found)
    /\ [](pc = "return0" => first_hop_found /\ module_idx = args.module + 1)
    /\ [][pc = "main" /\ pc' # pc =>
             pc' = IF first_hop_found THEN "for" ELSE "return1"]_vars
    /\ [][pc = "for" /\ module_idx > args.module /\ pc' # pc => pc' = "return0"]_vars
    /\ [][(pc \in Returned) => pc' = pc]_vars

\* main has returned 1 on a command line that names two modules
C12_Witness ==
    /\ pc = "return1"
    /\ ~first_hop_found
    /\ args.module = 2

(***************************************************************************)
(* C13.  Modules run one after the other and drain fully: when the build   *)
(* loop of module k+1 issues its first circuit-creation request, every     *)
(* circuit requested by module k is over (probed, failed or closed), none  *)
(* is still in flight.                                                     *)
(***************************************************************************)
C13_DrainedBeforeNext ==
    [][Len(reqs) = 0 /\ Len(reqs') = 1 =>
          \A c \in DOMAIN circs :
              circs[c].mod < module_idx => circs[c].chan \in ChanTerminal]_vars

(***************************************************************************)
(* C14.  For every selected exit a PendingCircuit is registered in the     *)
(* table before the circuit-creation request for it is issued, so that     *)
(* every notification about the new circuit that the event engine receives *)
(* finds the entry there.                                                  *)
(***************************************************************************)
C14_EventFindsEntry ==
    cur # NoEvent /\ ~cur.dup /\ handlers[cur.h].mod = circs[cur.c].mod =>
        Tracked(handlers[cur.h], cur.c)

(***************************************************************************)
(* C15.  The build loop never waits for a circuit: scheduled fairly, and   *)
(* whatever the event stream does (no notification ever delivered, every   *)
(* circuit failing), it issues all n requests and comes to the increment   *)
(* of modules_run.                                                         *)
(***************************************************************************)
C15_LoopTerminates ==
    /\ \A m \in 1..MaxModules :
          (pc = "subscribe" /\ module_idx = m) ~> (pc = "for" /\ module_idx = m + 1)
    /\ [][stats'.modules_run # stats.modules_run =>
             /\ stats'.modules_run = stats.modules_run + 1
             /\ Len(exit_relays) >= 1
             /\ Len(reqs) = Len(exit_relays)]_vars

\* a scan of two exits is through and no notification was ever emitted
C15_Witness ==
    /\ pc = "for"
    /\ stats.modules_run = 1
    /\ Len(circs) = 2
    /\ \A c \in DOMAIN circs : circs[c].chan = "requested"
    /\ cur = NoEvent

(***************************************************************************)
(* C16.  A notification about a circuit the engine does not track, one it  *)
(* did not originate or one whose table entry it has removed, is ignored:  *)
(* the table and the three counters stay as they are, no probe is invoked. *)
(***************************************************************************)
\* circuit c was not requested by the module run of handler h
Foreign(h, c) == handlers[h].mod # circs[c].mod

\* handler h has removed its entry for circuit c, probed or failed
Over(h, c) == Count(handlers[h].probes, c) + Count(handlers[h].fails, c) > 0

C16_UntrackedIgnored ==
    [][(/\ cur # NoEvent
        /\ cur' # cur
        /\ ~Tracked(handlers[cur.h], cur.c)
        /\ Foreign(cur.h, cur.c) \/ Over(cur.h, cur.c))
       => (handlers' = handlers /\ stats' = stats)]_vars

(***************************************************************************)
(* C17.  total_circuits, failed_circuits and modules_run never go down     *)
(* over the whole run of the process: there is one Statistics object, made *)
(* before any module runs, and no step of main, of run_module or of the    *)
(* event engine lowers or resets a counter, between modules included.      *)
(***************************************************************************)
C17_CountersMonotone ==
    [][/\ stats'.total_circuits >= stats.total_circuits
       /\ stats'.failed_circuits >= stats.failed_circuits
       /\ stats'.modules_run >= stats.modules_run]_vars

(***************************************************************************)
(* C18.  In every module run the event handler is subscribed to the        *)
(* circuit and stream notifications before the first circuit-creation      *)
(* request of the run is issued: no notification about a circuit of the    *)
(* run is emitted while no handler of the run listens.                     *)
(***************************************************************************)
C18_SubscribedBeforeRequest ==
    /\ [][Len(reqs') > Len(reqs) =>
             \E h \in DOMAIN handlers : handlers[h].mod = module_idx]_vars
    /\ [](\A c \in DOMAIN circs :
             \E h \in DOMAIN handlers : handlers[h].mod = circs[c].mod)
    /\ [](cur # NoEvent =>
             \E h \in 1..cur.last : handlers[h].mod = circs[cur.c].mod)

\* the first notification about a circuit of the second module run is out,
\* and the handler of that run is among the listeners it goes to
C18_Witness ==
    /\ cur # NoEvent
    /\ cur.ev = "launched"
    /\ circs[cur.c].mod = 2
    /\ handlers[cur.last].mod = 2

(***************************************************************************)
(* C19.  In a batch of several modules every circuit or stream             *)
(* notification is handled by one event handler only, that of the module   *)
(* whose build loop requested the circuit: at most one handler is          *)
(* subscribed at any time, so that a circuit requested by module k+1 never *)
(* sets off the probe or the failure accounting of module k's handler.     *)
(***************************************************************************)
C19_OneHandlerSubscribed ==
    /\ Len(handlers) <= 1
    /\ cur # NoEvent => handlers[cur.h].mod = circs[cur.c].mod
    /\ \A h \in DOMAIN handlers :
          \A c \in DOMAIN handlers[h].probes \cup DOMAIN handlers[h].fails :
              circs[c].mod <= handlers[h].mod

(***************************************************************************)
(* C20.  When a named module cannot be loaded, run_module returns with the *)
(* scan state as it was: the three counters unchanged, no event handler    *)
(* subscribed, no circuit-creation request issued; main goes on to the     *)
(* next module of the batch.                                               *)
(***************************************************************************)
C20_UnloadableSkipped ==
    /\ [][pc = "for" /\ pc' = "for" /\ module_idx' # module_idx =>
             /\ module_idx' = module_idx + 1
             /\ UNCHANGED <<stats, handlers, circs, reqs, rejected, exit_relays>>]_vars
    /\ [][pc = "for" /\ module_idx <= args.module /\ pc' # pc =>
             pc' = "select" /\ module_idx' = module_idx]_vars
    /\ [][module_idx' # module_idx =>
             \/ pc = "for" /\ pc' = "for"
             \/ stats'.modules_run = stats.modules_run + 1]_vars

\* the first module of a batch could not be loaded and the second has run
C20_Witness ==
    /\ pc = "return0"
    /\ args.module = 2
    /\ stats.modules_run = 1
    /\ Len(handlers) = 1
    /\ handlers[1].mod = 2

====
